---- MODULE Spec2Model ----
(***************************************************************************)
(* A model of wasm_lib (src/wasm_lib/src/lib.rs): a flat library of        *)
(* stateless kernels exported to a JavaScript host.  A state of the model  *)
(* is the last completed call (fn, args, ret), the call before it when the *)
(* host fed that call's result back in (prev), and the build profile.      *)
(*                                                                         *)
(* Integers: i32 values are TLA+ integers kept inside [MinI32, MaxI32];    *)
(* every product or sum that can leave that range is computed on base-256  *)
(* limbs (least significant first), so wrapping is explicit.  u32          *)
(* arguments that are cast with `as i32` are four-limb sequences, and u64  *)
(* values are eight-limb sequences.                                        *)
(*                                                                         *)
(* Integer overflow: rustc compiles an overflowing +, -, * or unary - to a *)
(* panic when overflow checks are on (the dev profile) and to two's        *)
(* complement wrapping when they are off (the release profile).  The       *)
(* profile is the variable overflow_checks, chosen in Init.                *)
(*                                                                         *)
(* Floating point: f32/f64 arithmetic is modelled by exact rational        *)
(* arithmetic on scaled integers, with NaN kept as a separate case; the    *)
(* Gaussian weights are tabulated to six decimals.  A result a rounding    *)
(* error of the last bit could move is therefore the model's, not          *)
(* necessarily the hardware's; no property below rests on such a value.    *)
(***************************************************************************)
EXTENDS Integers, Sequences, FiniteSets, TLC

VARIABLES overflow_checks, fn, args, ret, prev

vars == <<overflow_checks, fn, args, ret, prev>>

----------------------------------------------------------------------------
(* Machine integers *)

MaxI32 == 2147483647

MinI32 == -MaxI32 - 1

\* 256^(i-1), the weight of limb i of a 32-bit value
Shift(i) == CASE i = 1 -> 1 [] i = 2 -> 256 [] i = 3 -> 65536 [] i = 4 -> 16777216

\* the n limbs of a natural number below 2^31
ToLimbs(v, n) == [i \in 1..n |-> IF i <= 4 THEN (v \div Shift(i)) % 256 ELSE 0]

\* the four limbs of a u32 given as hi * 2^16 + lo
U32(hi, lo) == <<lo % 256, lo \div 256, hi % 256, hi \div 256>>

\* the two's complement limbs of an i32 (\div rounds down, % is non-negative)
I32Limbs(a) == [i \in 1..4 |-> (a \div Shift(i)) % 256]

\* `x as i32` of a u32, and of the low four limbs of a wider value
AsI32(l) ==
    (IF l[4] >= 128 THEN l[4] - 256 ELSE l[4]) * 16777216
        + l[3] * 65536 + l[2] * 256 + l[1]

\* the value of a limb sequence that is known to be below 2^31
LimbsToNat(l) ==
    LET RECURSIVE Val(_)
        Val(i) == IF i > Len(l) THEN 0
                  ELSE IF i > 4 THEN 0
                  ELSE l[i] * Shift(i) + Val(i + 1)
    IN Val(1)

IsZeroFrom(l, i) == \A k \in i..Len(l) : l[k] = 0

FitsNat31(l) == IsZeroFrom(l, 5) /\ (Len(l) < 4 \/ l[4] < 128)

RECURSIVE AddFrom(_, _, _, _)
AddFrom(a, b, i, carry) ==
    IF i > Len(a) THEN <<carry>>
    ELSE LET s == a[i] + b[i] + carry
         IN <<s % 256>> \o AddFrom(a, b, i + 1, s \div 256)

\* a + b of two limb sequences of equal length n: n + 1 limbs
AddLimbs(a, b) == AddFrom(a, b, 1, 0)

RECURSIVE ColSum(_, _, _, _)
ColSum(a, b, k, i) ==
    IF i > Len(a) THEN 0
    ELSE (IF k + 2 - i >= 1 /\ k + 2 - i <= Len(b) THEN a[i] * b[k + 2 - i] ELSE 0)
         + ColSum(a, b, k, i + 1)

RECURSIVE MulFrom(_, _, _, _)
MulFrom(a, b, k, carry) ==
    IF k = Len(a) + Len(b) THEN <<>>
    ELSE LET s == ColSum(a, b, k, 1) + carry
         IN <<s % 256>> \o MulFrom(a, b, k + 1, s \div 256)

\* a * b of two limb sequences: Len(a) + Len(b) limbs
MulLimbs(a, b) == MulFrom(a, b, 0, 0)

Pad(a, n) == [i \in 1..n |-> IF i <= Len(a) THEN a[i] ELSE 0]

RECURSIVE LeqFrom(_, _, _)
LeqFrom(a, b, i) ==
    IF i = 0 THEN TRUE
    ELSE IF a[i] < b[i] THEN TRUE
    ELSE IF a[i] > b[i] THEN FALSE
    ELSE LeqFrom(a, b, i - 1)

\* a <= b of two limb sequences
LimbsLeq(a, b) ==
    LET n == IF Len(a) > Len(b) THEN Len(a) ELSE Len(b)
    IN LeqFrom(Pad(a, n), Pad(b, n), n)

\* the remainder of a limb sequence by a small positive m
RECURSIVE ModFrom(_, _, _, _)
ModFrom(a, m, i, r) ==
    IF i = 0 THEN r ELSE ModFrom(a, m, i - 1, (r * 256 + a[i]) % m)

LimbsMod(a, m) == ModFrom(a, m, Len(a), 0)

Abs(a) == IF a < 0 THEN -a ELSE a

\* |a| as four limbs, also for a = MinI32
AbsLimbs(a) == IF a = MinI32 THEN <<0, 0, 0, 128>> ELSE ToLimbs(Abs(a), 4)

\* |a| <= 46340, the largest value whose square is below 2^31
IsShort(a) == a > -46341 /\ a < 46341

\* a.wrapping_mul(b) on i32
I32WrappingMul(a, b) ==
    IF IsShort(a) /\ IsShort(b) THEN a * b
    ELSE AsI32(MulLimbs(I32Limbs(a), I32Limbs(b)))

\* whether the magnitude p with the given sign is an i32
ProductFits(p, negative) ==
    FitsNat31(p) \/ (negative /\ p = <<0, 0, 0, 128, 0, 0, 0, 0>>)

\* whether a * b leaves the i32 range
I32MulOverflows(a, b) ==
    IF IsShort(a) /\ IsShort(b) THEN FALSE
    ELSE ~ ProductFits(MulLimbs(AbsLimbs(a), AbsLimbs(b)), (a < 0) # (b < 0))

\* a / b on i32 for b > 0: Rust's division truncates toward zero
I32Div(a, b) == IF a >= 0 THEN a \div b ELSE -((-(a + 1)) \div b) - (IF (-(a + 1)) % b = b - 1 THEN 1 ELSE 0)

Clamp(v, lo, hi) == IF v < lo THEN lo ELSE IF v > hi THEN hi ELSE v

----------------------------------------------------------------------------
(* What a call ends in *)

Ok(v) == [status |-> "ok", value |-> v]

Panic(why) == [status |-> "panic", value |-> why]

IsOk(r) == r.status = "ok"

Zeros(n) == [i \in 1..n |-> 0]

----------------------------------------------------------------------------
(* Pixel-wise filters.  A buffer is a sequence of bytes; byte i of the     *)
(* Rust Vec is element i + 1.                                              *)

\* the bytes chunks_exact_mut(4) hands out: a trailing remainder is skipped
InChunk(image_data, i) == ((i - 1) \div 4) * 4 + 4 <= Len(image_data)

\* element index of channel c (0..3) of the chunk that holds element i
ChunkAt(i, c) == ((i - 1) \div 4) * 4 + c + 1

Channel(i) == (i - 1) % 4

\* `v as u8` of a non-negative integer
AsU8(v) == v % 256

GrayOfBroken(r, g, b) == AsU8((r * 299 + g * 587 + b * 113) \div 1000)

GrayOf(r, g, b) == AsU8((r * 299 + g * 587 + b * 114) \div 1000)

apply_grayscale(image_data) ==
    Ok([i \in 1..Len(image_data) |->
          IF InChunk(image_data, i) /\ Channel(i) < 3
          THEN GrayOf(image_data[ChunkAt(i, 0)], image_data[ChunkAt(i, 1)],
                      image_data[ChunkAt(i, 2)])
          ELSE image_data[i]])

InvertOfBroken(v) == Clamp(256 - v, 0, 255)

InvertOf(v) == 255 - v

apply_invert(image_data) ==
    Ok([i \in 1..Len(image_data) |->
          IF InChunk(image_data, i) /\ Channel(i) < 3
          THEN InvertOf(image_data[i])
          ELSE image_data[i]])

----------------------------------------------------------------------------
(* Gaussian blur.  Sums of f32 products are integers in units of 10^-6;    *)
(* a NaN is the flag nan of the running sums.                              *)

I32AddOverflows(a, b) == (b > 0 /\ a > MaxI32 - b) \/ (b < 0 /\ a < MinI32 - b)

\* a.wrapping_add(b) on i32: a sum past either end comes back by 2^32
I32WrappingAdd(a, b) ==
    IF b > 0 /\ a > MaxI32 - b THEN (a + MinI32) + (b + MinI32)
    ELSE IF b < 0 /\ a < MinI32 - b THEN (a - MinI32) + (b - MinI32)
    ELSE a + b

\* the values of dx in `-radius..=radius`; -radius wraps to itself at MinI32
BlurTaps(radius) ==
    IF radius = MinI32 THEN <<MinI32>>
    ELSE IF radius < 0 THEN <<>>
    ELSE [k \in 1..(2 * radius + 1) |-> k - 1 - radius]

\* exp(-distance_sq / (2 * (radius / 3)^2)) in units of 10^-6, radius # 0
GaussWeight(distance_sq, radius) ==
    CASE distance_sq = 0 -> 1000000
      [] distance_sq = radius * radius -> 11109
      [] radius = 2 /\ distance_sq = 1 -> 324652
      [] radius = 3 /\ distance_sq = 1 -> 606531
      [] radius = 3 /\ distance_sq = 4 -> 135335
      [] radius = 4 /\ distance_sq = 1 -> 754840
      [] radius = 4 /\ distance_sq = 4 -> 324652
      [] radius = 4 /\ distance_sq = 9 -> 79560
      [] radius = 5 /\ distance_sq = 1 -> 835270
      [] radius = 5 /\ distance_sq = 4 -> 486752
      [] radius = 5 /\ distance_sq = 9 -> 197899
      [] radius = 5 /\ distance_sq = 16 -> 56135

\* (sum / weight_sum) as u8: the cast sends NaN to 0 and saturates
QuotientAsU8(sum, weight_sum, nan) ==
    IF nan THEN 0
    ELSE IF weight_sum = 0 THEN (IF sum = 0 THEN 0 ELSE 255)
    ELSE Clamp(sum \div weight_sum, 0, 255)

\* `limit as i32` of a usize below 2^32
UsizeAsI32(limit) == AsI32(ToLimbs(limit, 4))

Max2(a, b) == IF a > b THEN a ELSE b

Min2(a, b) == IF a < b THEN a ELSE b

\* (v + d).max(0).min(limit as i32 - 1) as usize, for limit >= 1
ClampToEdge(v, d, limit) == Min2(Max2(I32WrappingAdd(v, d), 0), UsizeAsI32(limit) - 1)

\* the byte offset of the tap d of pixel (x, y) in one pass
TapIndex(width, height, x, y, d, horizontal) ==
    IF horizontal THEN (y * width + ClampToEdge(x, d, width)) * 4
    ELSE (ClampToEdge(y, d, height) * width + x) * 4

\* the running sums after the tap at byte offset idx with the given weight;
\* a radius of 0 makes the weight exp(-0.0 / 0.0), a NaN
Accumulate(acc, src, idx, weight, nan) ==
    [status |-> "ok", nan |-> acc.nan \/ nan,
     r |-> acc.r + src[idx + 1] * weight,
     g |-> acc.g + src[idx + 2] * weight,
     b |-> acc.b + src[idx + 3] * weight,
     w |-> acc.w + weight]

\* one tap: v is the coordinate the pass moves along
BlurTap(src, v, d, idx, radius, checks, acc) ==
    IF checks /\ I32AddOverflows(v, d)
    THEN Panic("attempt to add with overflow")
    ELSE IF checks /\ I32MulOverflows(d, d)
    THEN Panic("attempt to multiply with overflow")
    ELSE IF idx + 3 > Len(src)
    THEN Panic("index out of bounds")
    ELSE Accumulate(acc, src, idx,
                    IF radius = 0 THEN 0 ELSE GaussWeight(I32WrappingMul(d, d), radius),
                    radius = 0)

\* One pixel of one pass: the taps in order, stopping at the first panic.
RECURSIVE BlurTapsFrom(_, _, _, _, _, _, _, _, _, _, _)
BlurTapsFrom(src, width, height, x, y, radius, horizontal, checks, taps, k, acc) ==
    IF k > Len(taps) \/ ~ IsOk(acc) THEN acc
    ELSE BlurTapsFrom(src, width, height, x, y, radius, horizontal, checks, taps,
                      k + 1,
                      BlurTap(src, IF horizontal THEN x ELSE y, taps[k],
                              TapIndex(width, height, x, y, taps[k], horizontal),
                              radius, checks, acc))

\* the R, G, B written at the pixel whose byte offset is idx
BlurWrite(sums, idx, len) ==
    IF ~ IsOk(sums) THEN sums
    ELSE IF idx + 3 > len THEN Panic("index out of bounds")
    ELSE Ok(<<QuotientAsU8(sums.r, sums.w, sums.nan),
              QuotientAsU8(sums.g, sums.w, sums.nan),
              QuotientAsU8(sums.b, sums.w, sums.nan)>>)

BlurPixel(src, width, height, x, y, radius, horizontal, checks) ==
    IF checks /\ radius = MinI32
    THEN Panic("attempt to negate with overflow")
    ELSE BlurWrite(BlurTapsFrom(src, width, height, x, y, radius, horizontal,
                                checks, BlurTaps(radius), 1,
                                [status |-> "ok", nan |-> FALSE,
                                 r |-> 0, g |-> 0, b |-> 0, w |-> 0]),
                   (y * width + x) * 4, Len(src))

\* the outcome of a pass from the outcomes of its pixels in row-major order:
\* the first panic, or dst with R, G and B of every pixel written
BlurCollect(pixels, failed, dst, width, height) ==
    IF failed # {}
    THEN pixels[CHOOSE p \in failed : \A q \in failed : p <= q]
    ELSE Ok([i \in 1..Len(dst) |->
               IF i <= width * height * 4 /\ Channel(i) < 3
               THEN pixels[(i - 1) \div 4].value[Channel(i) + 1]
               ELSE dst[i]])

Failed(pixels) == {p \in DOMAIN pixels : ~ IsOk(pixels[p])}

\* One pass over the pixels: src is read, dst is written.
BlurPass(src, dst, width, height, radius, horizontal, checks) ==
    BlurCollect([p \in 0..(width * height - 1) |->
                   BlurPixel(src, width, height, p % width, p \div width,
                             radius, horizontal, checks)],
                Failed([p \in 0..(width * height - 1) |->
                          BlurPixel(src, width, height, p % width, p \div width,
                                    radius, horizontal, checks)]),
                dst, width, height)

\* the vertical pass reads the outcome of the horizontal pass
BlurVertical(temp, image_data, width, height, radius, checks) ==
    IF ~ IsOk(temp) THEN temp
    ELSE BlurPass(temp.value, image_data, width, height, radius, FALSE, checks)

apply_blur(image_data, width, height, radius_u32, checks) ==
    BlurVertical(BlurPass(image_data, image_data, width, height,
                          AsI32(radius_u32), TRUE, checks),
                 image_data, width, height, AsI32(radius_u32), checks)

----------------------------------------------------------------------------
(* Windowed kernels: Sobel edge detection and the 5x5 sharpen.             *)

\* The range `margin..limit - margin` of a usize loop.  limit - margin below
\* zero panics under overflow checks and otherwise wraps to a value near the
\* top of usize, which no buffer index reaches.
InteriorRange(limit, margin, checks) ==
    IF limit < margin
    THEN (IF checks THEN [kind |-> "panic"] ELSE [kind |-> "wrapped"])
    ELSE [kind |-> "upto", end |-> limit - margin]

RangeIsEmpty(range, margin) == range.kind = "upto" /\ range.end <= margin

\* The two nested loops over the interior.  Body(x, y) is what one iteration
\* ends in: Ok(<<R, G, B, A>>) for the pixel written at (x, y), or a panic.
\* A loop over a wrapped range whose body runs walks the window off the end
\* of the buffer, whatever its length.
InteriorLoops(image_data, width, height, margin, checks, Body(_, _)) ==
    LET ys == InteriorRange(height, margin, checks)
        xs == InteriorRange(width, margin, checks)
        result == Zeros(Len(image_data))
    IN IF ys.kind = "panic" THEN Panic("attempt to subtract with overflow")
       ELSE IF RangeIsEmpty(ys, margin) THEN Ok(result)
       ELSE IF xs.kind = "panic" THEN Panic("attempt to subtract with overflow")
       ELSE IF RangeIsEmpty(xs, margin) THEN Ok(result)
       ELSE IF ys.kind = "wrapped" \/ xs.kind = "wrapped"
       THEN Panic("index out of bounds")
       ELSE
         LET span == xs.end - margin
             count == span * (ys.end - margin)
             pixels == [p \in 0..(count - 1) |->
                          Body(margin + (p % span), margin + (p \div span))]
             failed == {p \in DOMAIN pixels : ~ IsOk(pixels[p])}
             Interior(i) ==
                 LET x == ((i - 1) \div 4) % width
                     y == ((i - 1) \div 4) \div width
                 IN x >= margin /\ x < xs.end /\ y >= margin /\ y < ys.end
             PixelOf(i) ==
                 LET x == ((i - 1) \div 4) % width
                     y == ((i - 1) \div 4) \div width
                 IN (y - margin) * span + (x - margin)
         IN IF failed # {}
            THEN pixels[CHOOSE p \in failed : \A q \in failed : p <= q]
            ELSE Ok([i \in 1..Len(image_data) |->
                       IF Interior(i) THEN pixels[PixelOf(i)].value[Channel(i) + 1]
                       ELSE result[i]])

sobel_x == <<<<-1, 0, 1>>, <<-2, 0, 2>>, <<-1, 0, 1>>>>

sobel_y == <<<<-1, -2, -1>>, <<0, 0, 0>>, <<1, 2, 1>>>>

\* image_data[idx] * 0.299 + image_data[idx + 1] * 0.587 + image_data[idx + 2] * 0.114,
\* in thousandths
Luminance(image_data, idx) ==
    image_data[idx + 1] * 299 + image_data[idx + 2] * 587 + image_data[idx + 3] * 114

\* the byte offset of window cell (kx, ky) of the pixel (x, y)
WindowIndex(width, x, y, kx, ky, margin) ==
    ((y + ky - margin) * width + (x + kx - margin)) * 4

\* whether every read of the size x size window of (x, y) is inside the buffer
WindowInBounds(image_data, width, x, y, size, margin) ==
    \A ky \in 0..(size - 1) : \A kx \in 0..(size - 1) :
        WindowIndex(width, x, y, kx, ky, margin) + 3 <= Len(image_data)

RECURSIVE SumOver(_, _, _)
SumOver(F(_), k, n) == IF k > n THEN 0 ELSE F(k) + SumOver(F, k + 1, n)

\* (gx * gx + gy * gy).sqrt().min(255.0) as u8, gx and gy in thousandths
Magnitude(gx, gy) ==
    LET ax == Abs(gx) \div 1000
        bx == Abs(gx) % 1000
        ay == Abs(gy) \div 1000
        by == Abs(gy) % 1000
        \* floor((gx^2 + gy^2) / 10^6), without leaving 32 bits
        whole == ax * ax + ay * ay
                   + (2 * (ax * bx + ay * by) + (bx * bx + by * by) \div 1000) \div 1000
    IN IF whole >= 255 * 255 THEN 255
       ELSE CHOOSE m \in 0..254 : m * m <= whole /\ whole < (m + 1) * (m + 1)

EdgePixel(image_data, width, x, y) ==
    LET Gray(c) == Luminance(image_data, WindowIndex(width, x, y, c % 3, c \div 3, 1))
        Gx(c) == Gray(c) * sobel_x[(c \div 3) + 1][(c % 3) + 1]
        Gy(c) == Gray(c) * sobel_y[(c \div 3) + 1][(c % 3) + 1]
        idx == (y * width + x) * 4
    IN IF ~ WindowInBounds(image_data, width, x, y, 3, 1) \/ idx + 4 > Len(image_data)
       THEN Panic("index out of bounds")
       ELSE LET magnitude == Magnitude(SumOver(Gx, 0, 8), SumOver(Gy, 0, 8))
            IN Ok(<<magnitude, magnitude, magnitude, image_data[idx + 4]>>)

apply_edge_detection(image_data, width, height, checks) ==
    LET Body(x, y) == EdgePixel(image_data, width, x, y)
    IN InteriorLoops(image_data, width, height, 1, checks, Body)

kernel ==
    <<<<-1, -1, -1, -1, -1>>,
      <<-1,  2,  2,  2, -1>>,
      <<-1,  2,  8,  2, -1>>,
      <<-1,  2,  2,  2, -1>>,
      <<-1, -1, -1, -1, -1>>>>

kernel_sum == 8

\* the 5x5 convolution sum of channel c (0..2) at (x, y)
ConvolutionSum(image_data, width, x, y, c) ==
    LET Term(k) ==
            image_data[WindowIndex(width, x, y, k % 5, k \div 5, 2) + c + 1]
                * kernel[(k \div 5) + 1][(k % 5) + 1]
    IN SumOver(Term, 0, 24)

\* (orig + (sum * strength) / (kernel_sum * 100)).clamp(0, 255) as u8, where the
\* product wraps when it overflows (under overflow checks the call has ended)
Sharpened(orig, sum, strength) ==
    AsU8(Clamp(orig + I32Div(I32WrappingMul(sum, strength), kernel_sum * 100), 0, 255))

SharpenPixel(image_data, width, x, y, strength, checks) ==
    LET idx == (y * width + x) * 4
        Sum(c) == ConvolutionSum(image_data, width, x, y, c)
    IN IF ~ WindowInBounds(image_data, width, x, y, 5, 2)
       THEN Panic("index out of bounds")
       ELSE IF checks /\ \E c \in 0..2 : I32MulOverflows(Sum(c), strength)
       THEN Panic("attempt to multiply with overflow")
       ELSE IF idx + 4 > Len(image_data)
       THEN Panic("index out of bounds")
       ELSE Ok(<<Sharpened(image_data[idx + 1], Sum(0), strength),
                 Sharpened(image_data[idx + 2], Sum(1), strength),
                 Sharpened(image_data[idx + 3], Sum(2), strength),
                 image_data[idx + 4]>>)

apply_sharpen(image_data, width, height, strength_u32, checks) ==
    LET strength == AsI32(strength_u32)
        Body(x, y) == SharpenPixel(image_data, width, x, y, strength, checks)
    IN InteriorLoops(image_data, width, height, 2, checks, Body)

----------------------------------------------------------------------------
(* Mandelbrot.  With c = (X0 + i Y0) / D for D = 2 * width * height, the   *)
(* k-th iterate is the exact fraction (z.x + i z.y) / z.s.                 *)

MandelbrotIterations(width, height, px, py, max_iter) ==
    LET D == 2 * width * height
        X0 == (7 * px - 5 * width) * height
        Y0 == (2 * py - height) * 2 * width
        Step(z) ==
            LET s2 == IF z.s = 1 THEN D ELSE z.s * z.s
            IN [x |-> (IF z.s = 1 THEN 0 ELSE z.x * z.x - z.y * z.y) + X0 * (s2 \div D),
                y |-> (IF z.s = 1 THEN 0 ELSE 2 * z.x * z.y) + Y0 * (s2 \div D),
                s |-> s2]
        \* `x * x + y * y <= 4.0 && iteration < max_iter`: both tests are pure,
        \* the cheap one is taken first
        RECURSIVE Iterate(_, _)
        Iterate(z, iteration) ==
            IF iteration < max_iter /\ z.x * z.x + z.y * z.y <= 4 * z.s * z.s
            THEN Iterate(Step(z), iteration + 1)
            ELSE iteration
    IN Iterate([x |-> 0, y |-> 0, s |-> 1], 0)

\* floor(sqrt(v)) for 0 <= v <= 255 * 255
Isqrt(v) == CHOOSE m \in 0..255 : m * m <= v /\ v < (m + 1) * (m + 1)

\* the R, G, B, A of a pixel from its iteration count: the floors of
\* 255 * (1 - ratio), 255 * sqrt(ratio) and 255 * ratio for the real ratio
\* iteration / max_iter (what f32 yields while max_iter <= 2)
MandelbrotColor(iteration, max_iter) ==
    IF iteration = max_iter THEN <<0, 0, 0, 255>>
    ELSE <<(255 * (max_iter - iteration)) \div max_iter,
           Isqrt((255 * 255 * iteration) \div max_iter),
           (255 * iteration) \div max_iter,
           255>>

generate_mandelbrot(width, height, max_iterations) ==
    Ok([i \in 1..(width * height * 4) |->
          LET p == (i - 1) \div 4
          IN MandelbrotColor(
                 MandelbrotIterations(width, height, p % width, p \div width,
                                      max_iterations),
                 max_iterations)[Channel(i) + 1]])

----------------------------------------------------------------------------
(* Benchmarks *)

MatrixEntryBBroken(i, j) == (i + j) % 10

MatrixEntryA(i, j) == (i + j) % 10

MatrixEntryB(i, j) == (i * j) % 10

MatrixA(size) ==
    [c \in 1..(size * size) |-> MatrixEntryA((c - 1) \div size, (c - 1) % size)]

MatrixB(size) ==
    [c \in 1..(size * size) |-> MatrixEntryB((c - 1) \div size, (c - 1) % size)]

\* the entries are small integers, which f64 holds exactly
matrix_multiply(size) ==
    LET matrix_a == MatrixA(size)
        matrix_b == MatrixB(size)
        Cell(i, j) ==
            LET Term(k) == matrix_a[i * size + k + 1] * matrix_b[k * size + j + 1]
            IN SumOver(Term, 0, size - 1)
    IN Ok([c \in 1..(size * size) |-> Cell((c - 1) \div size, (c - 1) % size)])

\* The loop `for i in 2..count`, from i on.  sequence holds u64 values as
\* eight limbs; element i + 1 is sequence[i].
RECURSIVE FibonacciFrom(_, _, _, _)
FibonacciFrom(sequence, i, count, checks) ==
    IF i >= count THEN Ok(sequence)
    ELSE LET sum == AddLimbs(sequence[i], sequence[i - 1])
         IN IF sum[9] # 0 /\ checks
            THEN Panic("attempt to add with overflow")
            ELSE FibonacciFrom(Append(sequence, SubSeq(sum, 1, 8)), i + 1, count, checks)

fibonacci_sequence(count, checks) ==
    FibonacciFrom((IF count >= 1 THEN <<ToLimbs(0, 8)>> ELSE <<>>)
                      \o (IF count >= 2 THEN <<ToLimbs(1, 8)>> ELSE <<>>),
                  2, count, checks)

\* seed.wrapping_mul(1103515245).wrapping_add(12345) on u32 limbs
LcgNext(seed) ==
    SubSeq(AddLimbs(SubSeq(MulLimbs(seed, ToLimbs(1103515245, 4)), 1, 4),
                    ToLimbs(12345, 4)), 1, 4)

U32Max == <<255, 255, 255, 255>>

\* x * x + y * y <= 1.0 for x = s / M * 2 - 1 and y = t / M * 2 - 1, M = u32::MAX:
\* 4 s^2 + 4 t^2 + M^2 <= 4 M (s + t)
InsideCircle(s, t) ==
    LET squares == AddLimbs(MulLimbs(s, s), MulLimbs(t, t))
        lhs == AddLimbs(Pad(MulLimbs(squares, <<4>>), 10),
                        Pad(MulLimbs(U32Max, U32Max), 10))
        rhs == MulLimbs(MulLimbs(U32Max, <<4>>), AddLimbs(s, t))
    IN LimbsLeq(lhs, rhs)

RECURSIVE SamplesFrom(_, _, _, _)
SamplesFrom(k, samples, seed, inside_circle) ==
    IF k >= samples THEN inside_circle
    ELSE LET sx == LcgNext(seed)
             sy == LcgNext(sx)
         IN SamplesFrom(k + 1, samples, sy,
                        inside_circle + (IF InsideCircle(sx, sy) THEN 1 ELSE 0))

\* 4.0 * inside_circle as f64 / samples as f64: the fraction num / den, and
\* NaN for 0.0 / 0.0
estimate_pi(samples) ==
    LET inside_circle == SamplesFrom(0, samples, ToLimbs(123456789, 4), 0)
    IN Ok(IF samples = 0 /\ inside_circle = 0
          THEN [nan |-> TRUE, num |-> 0, den |-> 0]
          ELSE [nan |-> FALSE, num |-> 4 * inside_circle, den |-> samples])

RECURSIVE GenerateFrom(_, _, _, _)
GenerateFrom(k, size, seed, arr) ==
    IF k >= size THEN arr
    ELSE LET next == LcgNext(seed)
         IN GenerateFrom(k + 1, size, next, Append(arr, LimbsMod(next, 10000)))

RECURSIVE Insert(_, _)
Insert(sorted, v) ==
    IF sorted = <<>> \/ v <= Head(sorted) THEN <<v>> \o sorted
    ELSE <<Head(sorted)>> \o Insert(Tail(sorted), v)

\* sort_unstable: the ascending arrangement of the elements
RECURSIVE SortUnstable(_)
SortUnstable(arr) ==
    IF arr = <<>> THEN <<>> ELSE Insert(SortUnstable(Tail(arr)), Head(arr))

sort_array(size) == Ok(SortUnstable(GenerateFrom(0, size, ToLimbs(42, 4), <<>>)))

----------------------------------------------------------------------------
(* The host.  The kernels share no state, so a behaviour is one call from  *)
(* the freshly loaded module and, for an image kernel that returned, at    *)
(* most one more call of the same kernel on the buffer it returned.        *)

MaxDim == 5

MaxSeed == 3

MaxRadius == 2

MaxIterations == 2

MaxMandelbrotDim == 2

MaxSize == 3

MaxCount == 96

MaxSamples == 3

Palette ==
    <<<<0, 0, 0, 0>>, <<255, 255, 255, 255>>, <<10, 200, 30, 128>>,
      <<200, 17, 96, 7>>, <<255, 128, 0, 64>>>>

\* the pixel (x, y) of the seed-th test picture
PixelAt(x, y, seed) ==
    Palette[((seed + x * (1 + (seed % 3)) + y * (1 + (seed \div 3))) % 5) + 1]

Picture(width, height, seed) ==
    [image_data |-> [i \in 1..(width * height * 4) |->
                       PixelAt(((i - 1) \div 4) % width, ((i - 1) \div 4) \div width,
                               seed)[Channel(i) + 1]],
     width |-> width, height |-> height]

\* buffers whose length is not width * height * 4
Misshapen ==
    {[image_data |-> <<10, 20, 30, 40, 50>>, width |-> 1, height |-> 1],
     [image_data |-> <<10, 20, 30>>, width |-> 1, height |-> 1],
     [image_data |-> <<10, 20, 30, 40, 50, 60, 70, 80>>, width |-> 1, height |-> 1],
     [image_data |-> <<10, 20, 30, 40>>, width |-> 2, height |-> 1],
     [image_data |-> <<10, 20, 30, 40, 50, 60>>, width |-> 0, height |-> 0]}

Pictures ==
    {Picture(w, h, seed) : w \in 0..MaxDim, h \in 0..MaxDim, seed \in 0..MaxSeed}
        \cup Misshapen

\* u32 radii: the small ones, 2^31 and 2^32 - 1
Radii == {U32(0, r) : r \in 0..MaxRadius} \cup {U32(32768, 0), U32(65535, 65535)}

\* u32 strengths: 0, 100, 800, 400000, 2^31 - 1, 2^31 and 2^32 - 1
Strengths ==
    {U32(0, 0), U32(0, 100), U32(0, 800), U32(6, 6784), U32(32767, 65535),
     U32(32768, 0), U32(65535, 65535)}

ImageKernels ==
    {"apply_grayscale", "apply_invert", "apply_blur", "apply_edge_detection",
     "apply_sharpen"}

NoCall == [fn |-> "none", args |-> <<>>]

\* the exported function f applied to the arguments a
Invoke(f, a, checks) ==
    CASE f = "apply_grayscale" -> apply_grayscale(a.image_data)
      [] f = "apply_invert" -> apply_invert(a.image_data)
      [] f = "apply_blur" -> apply_blur(a.image_data, a.width, a.height, a.radius, checks)
      [] f = "apply_edge_detection" ->
             apply_edge_detection(a.image_data, a.width, a.height, checks)
      [] f = "apply_sharpen" ->
             apply_sharpen(a.image_data, a.width, a.height, a.strength, checks)
      [] f = "generate_mandelbrot" ->
             generate_mandelbrot(a.width, a.height, a.max_iterations)
      [] f = "matrix_multiply" -> matrix_multiply(a.size)
      [] f = "fibonacci_sequence" -> fibonacci_sequence(a.count, checks)
      [] f = "estimate_pi" -> estimate_pi(a.samples)
      [] f = "sort_array" -> sort_array(a.size)

Init ==
    /\ overflow_checks \in BOOLEAN
    /\ fn = "none"
    /\ args = <<>>
    /\ ret = Ok(<<>>)
    /\ prev = NoCall

\* the call f(a) runs to completion
Returns(f, a) ==
    /\ fn' = f
    /\ args' = a
    /\ ret' = Invoke(f, a, overflow_checks)
    /\ prev' = NoCall
    /\ UNCHANGED overflow_checks

CallGrayscale ==
    /\ fn = "none"
    /\ \E p \in Pictures : Returns("apply_grayscale", [image_data |-> p.image_data])

CallInvert ==
    /\ fn = "none"
    /\ \E p \in Pictures : Returns("apply_invert", [image_data |-> p.image_data])

CallBlur ==
    /\ fn = "none"
    /\ \E p \in Pictures, radius \in Radii :
           Returns("apply_blur", [image_data |-> p.image_data, width |-> p.width,
                                  height |-> p.height, radius |-> radius])

CallEdgeDetection ==
    /\ fn = "none"
    /\ \E p \in Pictures :
           Returns("apply_edge_detection",
                   [image_data |-> p.image_data, width |-> p.width,
                    height |-> p.height])

CallSharpen ==
    /\ fn = "none"
    /\ \E p \in Pictures, strength \in Strengths :
           Returns("apply_sharpen", [image_data |-> p.image_data, width |-> p.width,
                                     height |-> p.height, strength |-> strength])

CallMandelbrot ==
    /\ fn = "none"
    /\ \E w \in 0..MaxMandelbrotDim, h \in 0..MaxMandelbrotDim, m \in 0..MaxIterations :
           Returns("generate_mandelbrot",
                   [width |-> w, height |-> h, max_iterations |-> m])

CallMatrixMultiply ==
    /\ fn = "none"
    /\ \E size \in 0..MaxSize : Returns("matrix_multiply", [size |-> size])

CallFibonacci ==
    /\ fn = "none"
    /\ \E count \in 0..MaxCount : Returns("fibonacci_sequence", [count |-> count])

CallEstimatePi ==
    /\ fn = "none"
    /\ \E samples \in 0..MaxSamples : Returns("estimate_pi", [samples |-> samples])

CallSortArray ==
    /\ fn = "none"
    /\ \E size \in 0..MaxSize : Returns("sort_array", [size |-> size])

\* the host passes the returned buffer to the same kernel again
Reapply ==
    /\ fn \in ImageKernels
    /\ prev.fn = "none"
    /\ IsOk(ret)
    /\ args' = [args EXCEPT !.image_data = ret.value]
    /\ ret' = Invoke(fn, args', overflow_checks)
    /\ prev' = [fn |-> fn, args |-> args]
    /\ UNCHANGED <<fn, overflow_checks>>

Next ==
    \/ CallGrayscale
    \/ CallInvert
    \/ CallBlur
    \/ CallEdgeDetection
    \/ CallSharpen
    \/ CallMandelbrot
    \/ CallMatrixMultiply
    \/ CallFibonacci
    \/ CallEstimatePi
    \/ CallSortArray
    \/ Reapply

Spec == Init /\ [][Next]_vars

----------------------------------------------------------------------------
(* Properties.  A state with fn # "none" records the last call: args are   *)
(* its arguments and ret what it returned; after Reapply, prev holds the   *)
(* arguments of the call before it.                                        *)

\* the buffer of a holds exactly width * height pixels
WellShaped(a) == Len(a.image_data) = a.width * a.height * 4

WholePixels(a) == Len(a.image_data) % 4 = 0

\* dst is src with f applied to every R, G, B byte's pixel
MapsPixels(src, dst, F(_, _, _, _)) ==
    /\ Len(dst) = Len(src)
    /\ \A i \in 1..Len(src) :
           dst[i] = IF Channel(i) = 3 THEN src[i]
                    ELSE F(src[ChunkAt(i, 0)], src[ChunkAt(i, 1)],
                           src[ChunkAt(i, 2)], Channel(i))

Inverted(r, g, b, c) == 255 - <<r, g, b>>[c + 1]

\* C1: for a buffer of whole pixels, one apply_invert replaces each R, G, B
\* byte v by 255 - v and keeps alpha, and apply_invert of that result is the
\* original buffer byte for byte.
C1_InvertIsInvolution ==
    (fn = "apply_invert" /\ WholePixels(args)) =>
        /\ IsOk(ret)
        /\ MapsPixels(args.image_data, ret.value, Inverted)
        /\ (prev.fn = "apply_invert" => ret.value = prev.args.image_data)

\* apply_invert has run twice on a non-empty picture that the first run changed
C1_InvertedTwice ==
    /\ fn = "apply_invert"
    /\ prev.fn = "apply_invert"
    /\ WholePixels(prev.args)
    /\ Len(prev.args.image_data) > 0
    /\ args.image_data # prev.args.image_data
    /\ IsOk(ret)

Luma(r, g, b, c) == (r * 299 + g * 587 + b * 114) \div 1000

\* C2: for a buffer of whole pixels, one apply_grayscale sets R, G, B of each
\* pixel to floor((R*299 + G*587 + B*114) / 1000) and keeps alpha, and
\* apply_grayscale of that result returns it unchanged.
C2_GrayscaleIsIdempotent ==
    (fn = "apply_grayscale" /\ WholePixels(args)) =>
        /\ IsOk(ret)
        /\ MapsPixels(args.image_data, ret.value, Luma)
        /\ (prev.fn = "apply_grayscale" => ret.value = args.image_data)

\* apply_grayscale has run twice on a non-empty picture that the first run
\* changed
C2_GrayscaleTwice ==
    /\ fn = "apply_grayscale"
    /\ prev.fn = "apply_grayscale"
    /\ WholePixels(prev.args)
    /\ Len(prev.args.image_data) > 0
    /\ args.image_data # prev.args.image_data
    /\ IsOk(ret)

SameAlphaAndLength(src, dst) ==
    /\ Len(dst) = Len(src)
    /\ \A i \in 1..Len(src) : Channel(i) = 3 => dst[i] = src[i]

\* C3: apply_grayscale and apply_invert on a buffer of whole pixels, and
\* apply_blur on a buffer of length width*height*4 with any radius, return a
\* buffer of the input's length with the input's alpha bytes.
C3_AlphaAndLengthPreserved ==
    /\ (fn \in {"apply_grayscale", "apply_invert"} /\ WholePixels(args)) =>
           (IsOk(ret) /\ SameAlphaAndLength(args.image_data, ret.value))
    /\ (fn = "apply_blur" /\ WellShaped(args)) =>
           (IsOk(ret) /\ SameAlphaAndLength(args.image_data, ret.value))

\* the buffer breaks the shape rule of the kernel f
ShapeViolated(f, a) ==
    IF f \in {"apply_grayscale", "apply_invert"} THEN ~ WholePixels(a)
    ELSE ~ WholePixels(a) \/ ~ WellShaped(a)

\* C4: an image kernel called with a buffer whose length is not a multiple of
\* 4, or not width*height*4, fails explicitly: it returns no ordinary buffer
\* and does not end on an out-of-bounds index.
C4_ShapeViolationFailsExplicitly ==
    (fn \in ImageKernels /\ ShapeViolated(fn, args)) =>
        (~ IsOk(ret) /\ ret.value # "index out of bounds")

\* C5: apply_blur with radius 0 on a buffer of length width*height*4 returns
\* the buffer unchanged in every byte.
C5_BlurRadiusZeroIsIdentity ==
    (fn = "apply_blur" /\ WellShaped(args) /\ args.radius = U32(0, 0)) =>
        (IsOk(ret) /\ ret.value = args.image_data)

\* the pixel (x, y) lies within margin pixels of an edge of the picture
OnBorder(x, y, width, height, margin) ==
    x < margin \/ x >= width - margin \/ y < margin \/ y >= height - margin

\* every byte of every border pixel of value is 0
BorderIsZero(value, width, height, margin) ==
    \A i \in 1..Len(value) :
        OnBorder(((i - 1) \div 4) % width, ((i - 1) \div 4) \div width,
                 width, height, margin) => value[i] = 0

\* C6: for every width and height, 0, 1 and 2 included, and every buffer of
\* length width*height*4, apply_edge_detection returns a same-length buffer
\* whose outermost rows and columns are 0 in all four channels, and
\* apply_sharpen a same-length buffer that is 0 in all four channels within 2
\* pixels of any edge.
C6_BorderIsZero ==
    /\ (fn = "apply_edge_detection" /\ WellShaped(args)) =>
           /\ IsOk(ret)
           /\ Len(ret.value) = Len(args.image_data)
           /\ BorderIsZero(ret.value, args.width, args.height, 1)
    /\ (fn = "apply_sharpen" /\ WellShaped(args)) =>
           /\ IsOk(ret)
           /\ Len(ret.value) = Len(args.image_data)
           /\ BorderIsZero(ret.value, args.width, args.height, 2)

\* C7: each kernel called with its degenerate parameter returns a well-formed
\* result: apply_blur with radius 0 and generate_mandelbrot with
\* max_iterations 0 a buffer of width*height*4 bytes, matrix_multiply(0),
\* sort_array(0) and fibonacci_sequence(0) the empty sequence,
\* fibonacci_sequence(1) the sequence [0], and estimate_pi(0) a number that is
\* not the result of 0/0.
C7_DegenerateParametersWellFormed ==
    /\ (fn = "apply_blur" /\ WellShaped(args) /\ args.radius = U32(0, 0)) =>
           (IsOk(ret) /\ Len(ret.value) = Len(args.image_data))
    /\ (fn = "generate_mandelbrot" /\ args.max_iterations = 0) =>
           (IsOk(ret) /\ Len(ret.value) = args.width * args.height * 4)
    /\ (fn \in {"matrix_multiply", "sort_array"} /\ args.size = 0) =>
           ret = Ok(<<>>)
    /\ (fn = "fibonacci_sequence" /\ args.count = 0) => ret = Ok(<<>>)
    /\ (fn = "fibonacci_sequence" /\ args.count = 1) =>
           (IsOk(ret) /\ Len(ret.value) = 1 /\ LimbsToNat(ret.value[1]) = 0)
    /\ (fn = "estimate_pi" /\ args.samples = 0) =>
           (IsOk(ret) /\ ~ ret.value.nan)

\* twelve limbs hold every Fibonacci number below index 138
Sum12(a, b) == SubSeq(AddLimbs(a, b), 1, 12)

\* the standard sequence continued from its first i numbers up to count numbers
RECURSIVE StandardFrom(_, _, _)
StandardFrom(numbers, i, count) ==
    IF i >= count THEN numbers
    ELSE StandardFrom(Append(numbers, Sum12(numbers[i], numbers[i - 1])), i + 1, count)

\* the first count numbers of the standard Fibonacci sequence, on twelve limbs
StandardFibonacci(count) ==
    IF count = 0 THEN <<>>
    ELSE IF count = 1 THEN <<ToLimbs(0, 12)>>
    ELSE StandardFrom(<<ToLimbs(0, 12), ToLimbs(1, 12)>>, 2, count)

SameNumbers(got, want) ==
    /\ Len(got) = Len(want)
    /\ \A i \in 1..Len(want) : Pad(got[i], 12) = want[i]

\* C8: fibonacci_sequence(count) returns exactly count terms, the i-th being
\* the i-th standard Fibonacci number, and fibonacci_sequence(10) is
\* [0,1,1,2,3,5,8,13,21,34].
C8_FibonacciIsStandard ==
    (fn = "fibonacci_sequence") =>
        /\ IsOk(ret)
        /\ SameNumbers(ret.value, StandardFibonacci(args.count))
        /\ (args.count = 10 =>
               [i \in 1..10 |-> LimbsToNat(ret.value[i])]
                   = <<0, 1, 1, 2, 3, 5, 8, 13, 21, 34>>)

\* C9 as stated: matrix_multiply(2) builds A=[[0,1],[1,2]] and
\* B=[[0,1],[0,1]] and returns the row-major product [0,1,0,3].
C9_AsStated ==
    (fn = "matrix_multiply" /\ args.size = 2) =>
        /\ MatrixA(2) = <<0, 1, 1, 2>>
        /\ MatrixB(2) = <<0, 1, 0, 1>>
        /\ ret = Ok(<<0, 1, 0, 3>>)

\* C9: matrix_multiply(2) builds A=[[0,1],[1,2]] and B=[[0,0],[0,1]] from
\* A[i][j]=(i+j) mod 10 and B[i][j]=(i*j) mod 10 and returns the row-major
\* product [0,1,0,2].
C9_MatrixMultiplyOfTwo ==
    (fn = "matrix_multiply" /\ args.size = 2) =>
        /\ MatrixA(2) = <<0, 1, 1, 2>>
        /\ MatrixB(2) = <<0, 0, 0, 1>>
        /\ ret = Ok(<<0, 1, 0, 2>>)

\* matrix_multiply(2) has returned
C9_MultipliedTwoByTwo ==
    /\ fn = "matrix_multiply"
    /\ args.size = 2
    /\ IsOk(ret)
    /\ Len(ret.value) = 4

\* center 8, inner ring 2, outer ring -1
KernelWeight(dx, dy) ==
    IF dx = 0 /\ dy = 0 THEN 8
    ELSE IF dx \in -1..1 /\ dy \in -1..1 THEN 2
    ELSE -1

\* the exact 5x5 convolution sum of channel c (0..2) around the pixel (x, y)
ExactConvolution(image_data, width, x, y, c) ==
    LET Term(k) ==
            image_data[((y + (k \div 5) - 2) * width + x + (k % 5) - 2) * 4 + c + 1]
                * KernelWeight((k % 5) - 2, (k \div 5) - 2)
    IN SumOver(Term, 0, 24)

\* a div b rounding toward zero, b > 0
Quotient(a, b) == IF a >= 0 THEN a \div b ELSE -((-a) \div b)

\* clamp(orig + (S * strength) div 800, 0, 255) for the u32 strength.  |S| is
\* at most 6120; a strength of 800 * 256 or more moves any S # 0 past the clamp.
ExactSharpened(orig, S, strength) ==
    IF S = 0 THEN orig
    ELSE IF strength[4] # 0 \/ strength[3] * 65536 + strength[2] * 256 + strength[1] >= 204800
    THEN (IF S > 0 THEN 255 ELSE 0)
    ELSE Clamp(orig + Quotient(S * LimbsToNat(strength), 800), 0, 255)

InteriorPixelIsExact(src, dst, width, x, y, strength) ==
    /\ \A c \in 0..2 :
           dst[(y * width + x) * 4 + c + 1]
               = ExactSharpened(src[(y * width + x) * 4 + c + 1],
                                ExactConvolution(src, width, x, y, c), strength)
    /\ dst[(y * width + x) * 4 + 4] = src[(y * width + x) * 4 + 4]

\* C10: for every interior pixel of apply_sharpen (2 <= x < width-2,
\* 2 <= y < height-2) and every u32 strength, each output R, G, B byte is
\* clamp(orig + (S * strength) div 800, 0, 255) with S the exact 5x5
\* convolution sum of the channel, and the output alpha is the source alpha.
C10_SharpenInteriorIsExact ==
    (fn = "apply_sharpen" /\ WellShaped(args)) =>
        \A x \in 2..(args.width - 3), y \in 2..(args.height - 3) :
            /\ IsOk(ret)
            /\ InteriorPixelIsExact(args.image_data, ret.value, args.width, x, y,
                                    args.strength)

====
